---- MODULE Spec2Model ----
(***************************************************************************)
(* Model of the image combiner: the gesture controller and preview draw    *)
(* scheduling of CombinedPreviewArea, the control panel writers, and the   *)
(* media loading / object-URL lifecycle and export guard of ImageCombiner. *)
(*                                                                         *)
(* Numbers.  Zoom is an integer percentage (leftZoom = 100 is 100).  A     *)
(* relative focus in [0,1] is kept in fixed point with FocusUnit steps     *)
(* (0.5 is 500).  The logo position is an integer percentage.  The input   *)
(* samples are chosen so that every division of the handlers is exact.     *)
(*                                                                         *)
(* React.  An event handler, the re-render its state updates cause and the *)
(* effects of that render form one atomic step; a handler reads the state  *)
(* of the render that created it (the unprimed variables).                 *)
(***************************************************************************)
EXTENDS Integers, Sequences, FiniteSets, TLC

Slots == {"left", "right", "logo"}
Sides == {"left", "right"}

MIN_ZOOM == 10
MAX_ZOOM == 500
FocusUnit == 1000

\* ---------------------------------------------------------------- bounds
MaxTouches == 3
MaxDist == 300

\* ---------------------------------------------------------------- inputs
\* pointer positions: the far point drags past every clamp
P0 == [x |-> 0, y |-> 0]
P1 == [x |-> 3000, y |-> 2250]
Points == {P0, P1}
\* two-finger positions at distance 0, 5 and 250
T0 == [x |-> 0, y |-> 0]
T1 == [x |-> 3, y |-> 4]
T2 == [x |-> 150, y |-> 200]
TouchPairs == {<<T0, T0>>, <<T0, T1>>, <<T0, T2>>}
TouchLists == {<<p>> : p \in Points} \cup TouchPairs \cup {<<T0, T1, T2>>}
\* pointer positions a quarter of the container width and half its height apart
D1 == [x |-> 150, y |-> 0]
D2 == [x |-> 150, y |-> 225]
DragPoints == {P0, D1, D2}
Buttons == {0, 2}
WheelDeltas == {-4000, 4000}
\* a moderate scroll up and a long scroll down
WheelNotches == {-1000, 4000}
ContainerSizes == {[w |-> 0, h |-> 0], [w |-> 600, h |-> 450]}
\* text typed in a number input: a sign and decimal digits ("" is <<>>)
Typed150 == [neg |-> FALSE, digits |-> <<1, 5, 0>>]
TypedMinus10 == [neg |-> TRUE, digits |-> <<1, 0>>]
\* <<axis, text>> typed in the logo position inputs
PositionInputs == {<<"x", Typed150>>, <<"y", TypedMinus10>>}
\* whole-number stops of the control-panel.tsx sliders (min 0.1, max 2, step 0.1)
RelativeSliderStops == {1, 2}
\* sampled stops of the percentage sliders of the other control panel variant
SideSliderStops == {MIN_ZOOM, 100, MAX_ZOOM}
LogoSliderStops == {1, 10, 50}

\* ---------------------------------------------------------------- elements
\* files the user can pick; the data URL read from a file is named by the file
PhotoA == 1
PhotoB == 2
Clip == 3
LogoPng == 4
LogoSvg == 5
Notes == 6
PhotoSmall == 7
LogoTall == 8
FileInfo(f) ==
  CASE f = PhotoA -> [mime |-> "image", svg |-> FALSE, w |-> 800, h |-> 600]
    [] f = PhotoB -> [mime |-> "image", svg |-> FALSE, w |-> 1200, h |-> 900]
    [] f = Clip -> [mime |-> "video", svg |-> FALSE, w |-> 300, h |-> 900]
    [] f = LogoPng -> [mime |-> "image", svg |-> FALSE, w |-> 200, h |-> 100]
    [] f = LogoSvg -> [mime |-> "image", svg |-> TRUE, w |-> 100, h |-> 100]
    [] f = PhotoSmall -> [mime |-> "image", svg |-> FALSE, w |-> 300, h |-> 400]
    [] f = LogoTall -> [mime |-> "image", svg |-> FALSE, w |-> 100, h |-> 300]
    [] OTHER -> [mime |-> "other", svg |-> FALSE, w |-> 0, h |-> 0]
\* file selections <<slot, file, whether the FileReader succeeds>>
LoadSelections ==
  { <<"left", PhotoA, TRUE>>, <<"left", PhotoB, TRUE>>, <<"left", Notes, TRUE>>,
    <<"right", Clip, TRUE>>, <<"right", Clip, FALSE>>,
    <<"logo", LogoPng, TRUE>>, <<"logo", Clip, TRUE>> }
ExportSelections ==
  { <<"left", Clip, TRUE>>, <<"right", PhotoB, TRUE>>, <<"right", Clip, TRUE>>,
    <<"logo", LogoSvg, TRUE>>, <<"logo", Notes, TRUE>> }
LoadOutcomes == {"loaded", "invalid", "error", "timeout"}

\* an element: its kind and natural size, the data URL it was loaded for (src),
\* the object URL it reads (url, 0 when it reads the data URL itself) and the
\* load run that created it (id)
NoElement == [kind |-> "none", w |-> 0, h |-> 0, src |-> 0, url |-> 0, id |-> 0]
LoadedElement(f, type, url, id) ==
  [kind |-> type, w |-> FileInfo(f).w, h |-> FileInfo(f).h, src |-> f, url |-> url, id |-> id]
\* elements of earlier load runs
ImgWide == LoadedElement(PhotoA, "image", 1, 1)
VidTall == LoadedElement(Clip, "video", 2, 2)
ImgLogo == LoadedElement(LogoPng, "image", 3, 3)
EarlierRuns == Cardinality({ImgWide, VidTall, ImgLogo})
ImgLarge == LoadedElement(PhotoB, "image", 2, 2)
ImgSmall == LoadedElement(PhotoSmall, "image", 1, 1)
ImgTallLogo == LoadedElement(LogoTall, "image", 3, 3)
\* element props the preview area can be rendered with
ElementConfigs ==
  { [left |-> ImgWide, right |-> NoElement, logo |-> ImgLogo],
    [left |-> NoElement, right |-> VidTall, logo |-> NoElement] }

\* loaded slots an export can be made of
FrameConfigs ==
  { [left |-> ImgWide, right |-> ImgLarge, logo |-> ImgLogo],
    [left |-> ImgSmall, right |-> ImgWide, logo |-> ImgTallLogo],
    [left |-> ImgSmall, right |-> ImgSmall, logo |-> NoElement] }
\* slot states the gestures and the control panel lead to
FrameZooms ==
  { [left |-> l, right |-> r, logo |-> g] :
      l \in SideSliderStops, r \in {100, MAX_ZOOM}, g \in LogoSliderStops }
FrameFocuses ==
  { [left |-> [x |-> l, y |-> l], right |-> [x |-> r, y |-> 500]] :
      l \in {0, 500}, r \in {500, 1000} }
FrameLogoPositions == {[x |-> 50, y |-> 90], [x |-> 100, y |-> 0], [x |-> 0, y |-> 100]}
\* sizes of the preview container: hidden, 4:3, 16:9, an odd width and a size whose
\* cover scale is not a power-of-two fraction of the sources
FrameContainerSizes ==
  {[w |-> 0, h |-> 0], [w |-> 600, h |-> 450], [w |-> 1600, h |-> 900], [w |-> 601, h |-> 450],
   [w |-> 400, h |-> 260]}

\* ---------------------------------------------------------------- helpers
Min2(a, b) == IF a <= b THEN a ELSE b
Max2(a, b) == IF a >= b THEN a ELSE b

clamp(num, min, max) == Min2(Max2(num, min), max)

Sqrt(n) == CHOOSE r \in 0..MaxDist : r * r <= n /\ (r + 1) * (r + 1) > n

calculateDistance(touch1, touch2) ==
  LET dx == touch1.x - touch2.x
      dy == touch1.y - touch2.y
  IN Sqrt(dx * dx + dy * dy)

RECURSIVE DigitsValue(_)
DigitsValue(ds) ==
  IF ds = <<>> THEN 0 ELSE 10 * DigitsValue(SubSeq(ds, 1, Len(ds) - 1)) + ds[Len(ds)]

\* Number(e.target.value) of a number input
Number(text) == IF text.neg THEN 0 - DigitsValue(text.digits) ELSE DigitsValue(text.digits)

VARIABLES
  element,               \* leftMediaElement, rightMediaElement, logoElement
  zoom,                  \* leftZoom, rightZoom, logoZoom
  relativeFocus,         \* leftRelativeFocus, rightRelativeFocus (fixed point)
  logoPosition,
  loading,               \* isLoadingLeft, isLoadingRight, isLoadingLogo
  activeDrag, dragStart, initialDragFocus, initialLogoPos, isTouching,
  isPinching, initialPinchDistance, pinchSide, zoomAtPinchStart,
  animationFrameId,      \* NoFrame, or the draw closure the pending frame will run
  rafQueue,              \* environment: the frame callbacks the browser holds, oldest first
  initialDrawTimeout,    \* NoFrame, or the draw closure the pending 50 ms timer requests
  resizeObserver,        \* closure of the observer callback and whether a notification is due
  containerSize,
  undrawn,               \* history: the draw inputs changed and no draw pass painted them yet
  previewFrame,          \* history: the source rectangles the last preview draw pass used
  preemptedDrag,         \* history: the drag the running pinch cancelled when it started
  nTouches,              \* environment: fingers currently on the screen
  media,                 \* leftMedia, rightMedia, logo: the selected file's data URL (0 is null)
  mediaType,             \* leftMediaType, rightMediaType
  loadError,             \* leftLoadError, rightLoadError, logoLoadError
  attempts,              \* the loadMediaEffect / loadLogoEffect runs still in flight
  nextAttempt,           \* number of the next load run (its object URL, if created, gets the same number)
  revokes,               \* per object URL created so far, how often it was revoked
  isMounted,
  isSaving, saveError,
  toBlobPending,         \* canvas.toBlob callbacks not yet delivered
  canvases, downloads,   \* history: canvases the exporter created, downloads it triggered
  exportFrame,           \* history: size of the last export canvas and what was drawn on it
  publicId,              \* parsedInput of the running initiateTranscription call (0: none)
  awaiting,              \* the await initiateTranscription is suspended at
  attempt,               \* loop counter of the polling loop
  status,                \* last status checkTranscriptionStatus returned
  returned,              \* what the action returned (NoReturn: nothing yet)
  checks,                \* history: calls of checkTranscriptionStatus made
  reported               \* history: the statuses those calls returned, oldest first

slotVars == <<element, zoom, relativeFocus, logoPosition, loading>>
loadVars == <<media, mediaType, loadError, attempts, nextAttempt, revokes, isMounted>>
saveVars == <<isSaving, saveError, toBlobPending, canvases, downloads, exportFrame>>
gestureVars == <<activeDrag, dragStart, initialDragFocus, initialLogoPos, isTouching,
                 isPinching, initialPinchDistance, pinchSide, zoomAtPinchStart, preemptedDrag>>
drawVars == <<animationFrameId, rafQueue, initialDrawTimeout, resizeObserver, undrawn,
              previewFrame>>
transcribeVars == <<publicId, awaiting, attempt, status, returned, checks, reported>>
vars == <<slotVars, gestureVars, drawVars, containerSize, nTouches, loadVars, saveVars,
          transcribeVars>>

NoFrame == <<>>

\* ------------------------------------------------------ preview scheduling
\* the values drawPreviewCanvases closes over (its useCallback dependencies)
DrawDeps(el, z, f) == <<el["left"], el["right"], z["left"], z["right"], f["left"], f["right"]>>
CurrentDeps == DrawDeps(element, zoom, relativeFocus)

\* requestDraw of the render whose draw closure is `closure`
requestDraw(frame, closure) == IF frame = NoFrame THEN closure ELSE frame

\* the browser's frame callback list after requestAnimationFrame(closure) and
\* after cancelAnimationFrame of the first request made with `frame`
requestAnimationFrame(queue, closure) == Append(queue, closure)
cancelAnimationFrame(queue, frame) ==
  LET hits == {i \in 1..Len(queue) : queue[i] = frame}
  IN IF hits = {} THEN queue
     ELSE LET first == CHOOSE i \in hits : \A j \in hits : i <= j
          IN [i \in 1..(Len(queue) - 1) |-> IF i < first THEN queue[i] ELSE queue[i + 1]]
\* requestDraw: a frame is requested only when the marker is clear
requestDrawQueue(queue, frame, closure) ==
  IF frame = NoFrame THEN requestAnimationFrame(queue, closure) ELSE queue
\* a marker cleared and its frame left in the browser's list
cancelDrawMarkerOnly(queue, frame) == queue
\* if (animationFrameId.current) cancelAnimationFrame(animationFrameId.current)
cancelDraw(queue, frame) ==
  IF frame # NoFrame THEN cancelAnimationFrame(queue, frame) ELSE queue
\* cleanup of the resize effect: the pending frame is cancelled
ResizeEffectCleanup(frame) == NoFrame

\* the callback list after the re-render that follows a handler
RenderQueue(queue, frame, newDeps) ==
  IF newDeps # CurrentDeps
  THEN requestDrawQueue(cancelDraw(queue, frame), ResizeEffectCleanup(frame), newDeps)
  ELSE queue

\* Re-render after a handler: `frame` is animationFrameId as the handler left it.
\* When a dependency of drawPreviewCanvases changed, requestDraw changes identity,
\* the resize effect is torn down and set up again and the redraw effect runs.
Render(frame, newDeps) ==
  IF newDeps # CurrentDeps
  THEN /\ animationFrameId' = requestDraw(ResizeEffectCleanup(frame), newDeps)
       /\ initialDrawTimeout' = newDeps
       /\ resizeObserver' = [closure |-> newDeps, notify |-> TRUE]
       /\ undrawn' = TRUE
       /\ UNCHANGED previewFrame
  ELSE /\ animationFrameId' = frame
       /\ UNCHANGED <<initialDrawTimeout, resizeObserver, undrawn, previewFrame>>

RECURSIVE GCD(_, _)
GCD(a, b) == IF b = 0 THEN a ELSE GCD(b, a % b)

\* JavaScript numbers that are not whole, kept exact as reduced fractions
\* <<numerator, denominator>> with a positive denominator
Abs(n) == IF n < 0 THEN 0 - n ELSE n
Frac(n, d) == LET g == GCD(Abs(n), d) IN <<n \div g, d \div g>>
Whole(n) == <<n, 1>>
RAdd(a, b) == Frac(a[1] * b[2] + b[1] * a[2], a[2] * b[2])
RSub(a, b) == Frac(a[1] * b[2] - b[1] * a[2], a[2] * b[2])
RMul(a, b) == Frac(a[1] * b[1], a[2] * b[2])
RDiv(a, b) == Frac(a[1] * b[2], a[2] * b[1])
RLeq(a, b) == a[1] * b[2] <= b[1] * a[2]
RMin(a, b) == IF RLeq(a, b) THEN a ELSE b
RMax(a, b) == IF RLeq(b, a) THEN a ELSE b
RClamp(num, min, max) == RMin(RMax(num, min), max)
Floor(a) == a[1] \div a[2]
Ceil(a) == 0 - ((0 - a[1]) \div a[2])

\* ---- the per-slot draw of the preview
NoRect == <<>>
\* one side of a preview draw pass: what was drawn and the source rectangle used
NoDraw == [mediaElement |-> NoElement, zoomPercent |-> 0, focus |-> [x |-> 0, y |-> 0],
           rect |-> NoRect, ulp |-> 0]
\* dWidth / finalScale and dHeight / finalScale are IEEE doubles: the quotient the
\* division returns is the exact one, or the double next below or next above it.
\* `ulp` keeps that rounding error in units in the last place beside the exact value
\* (one direction for the quotients of a draw pass).
Roundings == {-1, 0, 1}
NoPreview == [left |-> NoDraw, right |-> NoDraw]

\* the same draw with the ideal top-left used as it is
drawMediaSectionUnclamped(mediaElement, targetCanvasWidth, targetCanvasHeight, zoomPercent, focus) ==
  IF mediaElement.kind = "none" \/ mediaElement.w <= 0 \/ mediaElement.h <= 0 \/ zoomPercent <= 0
  THEN NoRect
  ELSE LET dWidth == Frac(targetCanvasWidth, 2)
           dHeight == Whole(targetCanvasHeight)
           sourceWidth == Whole(mediaElement.w)
           sourceHeight == Whole(mediaElement.h)
           overallScale == Frac(zoomPercent, 100)
           sourceAspect == RDiv(sourceWidth, sourceHeight)
           destAspect == RDiv(dWidth, dHeight)
           coverScale == IF ~RLeq(sourceAspect, destAspect)
                         THEN RDiv(dHeight, sourceHeight)
                         ELSE RDiv(dWidth, sourceWidth)
           finalScale == RMul(coverScale, overallScale)
           sWidthFinal == RDiv(dWidth, finalScale)
           sHeightFinal == RDiv(dHeight, finalScale)
           sxIdeal == RSub(RMul(sourceWidth, Frac(focus.x, FocusUnit)), RDiv(sWidthFinal, Whole(2)))
           syIdeal == RSub(RMul(sourceHeight, Frac(focus.y, FocusUnit)), RDiv(sHeightFinal, Whole(2)))
       IN [sx |-> sxIdeal,
           sy |-> syIdeal,
           sWidth |-> sWidthFinal,
           sHeight |-> sHeightFinal]

\* the source rectangle drawMediaSection of the preview hands to ctx.drawImage
drawMediaSection(mediaElement, targetCanvasWidth, targetCanvasHeight, zoomPercent, focus) ==
  IF mediaElement.kind = "none" \/ mediaElement.w <= 0 \/ mediaElement.h <= 0 \/ zoomPercent <= 0
  THEN NoRect
  ELSE LET dWidth == Frac(targetCanvasWidth, 2)
           dHeight == Whole(targetCanvasHeight)
           sourceWidth == Whole(mediaElement.w)
           sourceHeight == Whole(mediaElement.h)
           overallScale == Frac(zoomPercent, 100)
           sourceAspect == RDiv(sourceWidth, sourceHeight)
           destAspect == RDiv(dWidth, dHeight)
           coverScale == IF ~RLeq(sourceAspect, destAspect)
                         THEN RDiv(dHeight, sourceHeight)
                         ELSE RDiv(dWidth, sourceWidth)
           finalScale == RMul(coverScale, overallScale)
           sWidthFinal == RDiv(dWidth, finalScale)
           sHeightFinal == RDiv(dHeight, finalScale)
           sxIdeal == RSub(RMul(sourceWidth, Frac(focus.x, FocusUnit)), RDiv(sWidthFinal, Whole(2)))
           syIdeal == RSub(RMul(sourceHeight, Frac(focus.y, FocusUnit)), RDiv(sHeightFinal, Whole(2)))
       IN [sx |-> RClamp(sxIdeal, Whole(0), RMax(Whole(0), RSub(sourceWidth, sWidthFinal))),
           sy |-> RClamp(syIdeal, Whole(0), RMax(Whole(0), RSub(sourceHeight, sHeightFinal))),
           sWidth |-> sWidthFinal,
           sHeight |-> sHeightFinal]

ContainerVisible == containerSize.w > 0 /\ containerSize.h > 0

\* drawPreviewCanvases of the closure `deps` (the values its useCallback captured),
\* in the container as it is measured when the frame runs
drawPreviewCanvases(deps, ulp) ==
  LET drawSide(mediaElement, zoomPercent, focus, u) ==
        LET rect == drawMediaSection(mediaElement, containerSize.w, Max2(1, containerSize.h),
                                     zoomPercent, focus)
        IN [mediaElement |-> mediaElement, zoomPercent |-> zoomPercent, focus |-> focus,
            rect |-> rect, ulp |-> IF rect = NoRect THEN 0 ELSE u]
  IN [left  |-> drawSide(deps[1], deps[3], deps[5], ulp),
      right |-> drawSide(deps[2], deps[4], deps[6], ulp)]

\* drawPreviewCanvases run by the animation frame, then the resize observer
\* notification of the same frame (animation frame callbacks run first).
AnimationFrame ==
  /\ animationFrameId # NoFrame \/ rafQueue # <<>> \/ resizeObserver.notify
  /\ undrawn' = IF animationFrameId # NoFrame /\ ContainerVisible
                THEN animationFrameId # CurrentDeps
                ELSE undrawn
  /\ \E ulp \in Roundings :
       previewFrame' = IF animationFrameId # NoFrame /\ ContainerVisible
                       THEN drawPreviewCanvases(animationFrameId, ulp)
                       ELSE previewFrame
  /\ animationFrameId' = IF resizeObserver.notify
                         THEN requestDraw(NoFrame, resizeObserver.closure)
                         ELSE NoFrame
  /\ rafQueue' = IF resizeObserver.notify
                 THEN requestDrawQueue(<<>>, NoFrame, resizeObserver.closure)
                 ELSE <<>>
  /\ resizeObserver' = [resizeObserver EXCEPT !.notify = FALSE]
  /\ UNCHANGED <<slotVars, gestureVars, initialDrawTimeout, containerSize, transcribeVars, nTouches, loadVars, saveVars>>

\* the 50 ms initial-draw timer of the resize effect
InitialDrawTimeoutFires ==
  /\ initialDrawTimeout # NoFrame
  /\ animationFrameId' = requestDraw(animationFrameId, initialDrawTimeout)
  /\ rafQueue' = requestDrawQueue(rafQueue, animationFrameId, initialDrawTimeout)
  /\ initialDrawTimeout' = NoFrame
  /\ UNCHANGED <<slotVars, gestureVars, resizeObserver, undrawn, previewFrame, containerSize, transcribeVars, nTouches, loadVars, saveVars>>

ContainerResize(size) ==
  /\ size # containerSize
  /\ containerSize' = size
  /\ resizeObserver' = [resizeObserver EXCEPT !.notify = TRUE]
  /\ UNCHANGED <<slotVars, gestureVars, animationFrameId, rafQueue, initialDrawTimeout, undrawn, previewFrame,
                 nTouches, loadVars, saveVars, transcribeVars>>

\* ------------------------------------------------------ gesture controller
mediaExists(type) == element[type].kind # "none"

\* the logo div is rendered only for a loaded logo that is not loading
LogoAreaRendered == element["logo"].kind = "image" /\ element["logo"].w > 0 /\ ~loading["logo"]
AreaRendered(type) == isMounted /\ (type = "logo" => LogoAreaRendered)

\* the document listeners the global-listeners effect of the last render left
\* attached; its cleanup removes them all when the component unmounts
TouchListenersAttached == isMounted /\ (activeDrag # "null" \/ isTouching \/ isPinching)
MouseListenersAttachedAnySession ==
  isMounted /\ (activeDrag # "null" \/ isTouching \/ isPinching)
MouseListenersAttached == isMounted /\ activeDrag # "null" /\ ~isTouching /\ ~isPinching

handleInteractionStart(p, type, isTouch) ==
  /\ isPinching' = FALSE
  /\ pinchSide' = "null"
  /\ initialPinchDistance' = 0
  /\ preemptedDrag' = "null"
  /\ UNCHANGED zoomAtPinchStart
  /\ IF ~mediaExists(type)
     THEN /\ activeDrag' = "null"
          /\ isTouching' = FALSE
          /\ UNCHANGED <<dragStart, initialDragFocus, initialLogoPos>>
     ELSE IF isTouch /\ isPinching
     THEN /\ activeDrag' = "null"
          /\ isTouching' = isTouch
          /\ UNCHANGED <<dragStart, initialDragFocus, initialLogoPos>>
     ELSE /\ activeDrag' = type
          /\ isTouching' = isTouch
          /\ dragStart' = p
          /\ initialDragFocus' = IF type \in Sides THEN relativeFocus[type] ELSE initialDragFocus
          /\ initialLogoPos' = IF type = "logo" THEN logoPosition ELSE initialLogoPos

\* handleDragEnd: value of animationFrameId after the cancel
handleDragEndFrame == NoFrame

\* on-screen size of the source, sourceDim * finalScale, as a fraction <<num, den>>
ScaledSource(el, zoomPercent, cw, ch) ==
  LET sourceWidth == IF el.w = 0 THEN 1 ELSE el.w
      sourceHeight == IF el.h = 0 THEN 1 ELSE el.h
      wider == 2 * sourceWidth * ch > cw * sourceHeight   \* sourceAspect > destAspect
  IN IF wider
     THEN [w |-> <<sourceWidth * ch * zoomPercent, sourceHeight * 100>>,
           h |-> <<ch * zoomPercent, 100>>]
     ELSE [w |-> <<cw * zoomPercent, 200>>,
           h |-> <<sourceHeight * cw * zoomPercent, 200 * sourceWidth>>]

\* delta / (num/den) in focus fixed point (the fraction is reduced first)
FocusDelta(delta, frac) ==
  LET g == GCD(frac[1], frac[2])
  IN (delta * FocusUnit * (frac[2] \div g)) \div (frac[1] \div g)

panMediaUnclamped(el, zoomPercent, initialFocus, deltaX, deltaY) ==
  LET s == ScaledSource(el, zoomPercent, containerSize.w, containerSize.h)
  IN [x |-> initialFocus.x - FocusDelta(deltaX, s.w),
      y |-> initialFocus.y - FocusDelta(deltaY, s.h)]

\* a pan that moves on from the focus the last move left
panMediaFromCurrent(el, zoomPercent, initialFocus, deltaX, deltaY) ==
  LET s == ScaledSource(el, zoomPercent, containerSize.w, containerSize.h)
  IN [x |-> clamp(relativeFocus[activeDrag].x - FocusDelta(deltaX, s.w), 0, FocusUnit),
      y |-> clamp(relativeFocus[activeDrag].y - FocusDelta(deltaY, s.h), 0, FocusUnit)]

\* panMedia: the focus the drag computes
panMedia(el, zoomPercent, initialFocus, deltaX, deltaY) ==
  LET s == ScaledSource(el, zoomPercent, containerSize.w, containerSize.h)
  IN [x |-> clamp(initialFocus.x - FocusDelta(deltaX, s.w), 0, FocusUnit),
      y |-> clamp(initialFocus.y - FocusDelta(deltaY, s.h), 0, FocusUnit)]

handleDragMove(p) ==
  LET deltaX == p.x - dragStart.x
      deltaY == p.y - dragStart.y
  IN IF activeDrag = "null" \/ isPinching \/ ~ContainerVisible
     THEN UNCHANGED <<slotVars, drawVars>>
     ELSE IF activeDrag \in Sides /\ mediaExists(activeDrag)
     THEN LET newFocus == panMedia(element[activeDrag], zoom[activeDrag], initialDragFocus, deltaX, deltaY)
          IN IF newFocus # relativeFocus[activeDrag]
             THEN /\ relativeFocus' = [relativeFocus EXCEPT ![activeDrag] = newFocus]
                  /\ Render(requestDraw(animationFrameId, CurrentDeps),
                            DrawDeps(element, zoom, relativeFocus'))
                  /\ rafQueue' = RenderQueue(requestDrawQueue(rafQueue, animationFrameId, CurrentDeps),
                                            requestDraw(animationFrameId, CurrentDeps), DrawDeps(element, zoom, relativeFocus'))
                  /\ UNCHANGED <<element, zoom, logoPosition, loading>>
             ELSE UNCHANGED <<slotVars, drawVars>>
     ELSE IF activeDrag = "logo" /\ mediaExists("logo")
     THEN /\ logoPosition' =
               [x |-> clamp(initialLogoPos.x + (deltaX * 100) \div containerSize.w, 0, 100),
                y |-> clamp(initialLogoPos.y + (deltaY * 100) \div containerSize.h, 0, 100)]
          /\ UNCHANGED <<element, zoom, relativeFocus, loading, drawVars>>
     ELSE UNCHANGED <<slotVars, drawVars>>

MouseDown(type, button, p) ==
  /\ AreaRendered(type)
  /\ IF button # 0
     THEN UNCHANGED gestureVars
     ELSE handleInteractionStart(p, type, FALSE)
  /\ UNCHANGED <<slotVars, drawVars, containerSize, transcribeVars, nTouches, loadVars, saveVars>>

MouseMove(p) ==
  /\ MouseListenersAttached
  /\ handleDragMove(p)
  /\ UNCHANGED <<gestureVars, containerSize, transcribeVars, nTouches, loadVars, saveVars>>

MouseUp(button) ==
  /\ MouseListenersAttached
  /\ IF button = 0 /\ activeDrag # "null" /\ ~isTouching /\ ~isPinching
     THEN /\ activeDrag' = "null"
          /\ animationFrameId' = handleDragEndFrame
          /\ rafQueue' = cancelDraw(rafQueue, animationFrameId)
     ELSE UNCHANGED <<activeDrag, animationFrameId, rafQueue>>
  /\ isTouching' = FALSE
  /\ UNCHANGED <<slotVars, dragStart, initialDragFocus, initialLogoPos, isPinching,
                 initialPinchDistance, pinchSide, zoomAtPinchStart, preemptedDrag,
                 initialDrawTimeout, resizeObserver, undrawn, previewFrame, containerSize, transcribeVars, nTouches, loadVars, saveVars>>

PinchStartDragKept == activeDrag

\* the drag a two-finger touch start leaves behind
PinchStartDrag == "null"

\* a touch start that lets two fingers pinch any slot
handleTouchStartPinchAnywhere(type, touches) ==
  /\ AreaRendered(type)
  /\ Len(touches) > nTouches
  /\ nTouches' = Len(touches)
  /\ IF ~mediaExists(type)
     THEN UNCHANGED <<gestureVars, animationFrameId, rafQueue>>
     ELSE IF Len(touches) = 1 /\ ~isPinching
     THEN /\ handleInteractionStart(touches[1], type, TRUE)
          /\ UNCHANGED <<animationFrameId, rafQueue>>
     ELSE IF Len(touches) = 2
     THEN /\ activeDrag' = IF activeDrag # "null" THEN PinchStartDrag ELSE activeDrag
          /\ animationFrameId' = IF activeDrag # "null" THEN handleDragEndFrame ELSE animationFrameId
          /\ rafQueue' = IF activeDrag # "null" THEN cancelDraw(rafQueue, animationFrameId) ELSE rafQueue
          /\ isPinching' = TRUE
          /\ isTouching' = FALSE
          /\ pinchSide' = type
          /\ initialPinchDistance' = calculateDistance(touches[1], touches[2])
          /\ zoomAtPinchStart' = zoom[type]
          /\ preemptedDrag' = activeDrag
          /\ UNCHANGED <<dragStart, initialDragFocus, initialLogoPos>>
     ELSE UNCHANGED <<gestureVars, animationFrameId, rafQueue>>
  /\ UNCHANGED <<slotVars, initialDrawTimeout, resizeObserver, undrawn, previewFrame, containerSize, transcribeVars, loadVars, saveVars>>

handleTouchStart(type, touches) ==
  /\ AreaRendered(type)
  /\ Len(touches) > nTouches
  /\ nTouches' = Len(touches)
  /\ IF ~mediaExists(type)
     THEN UNCHANGED <<gestureVars, animationFrameId, rafQueue>>
     ELSE IF Len(touches) = 1 /\ ~isPinching
     THEN /\ handleInteractionStart(touches[1], type, TRUE)
          /\ UNCHANGED <<animationFrameId, rafQueue>>
     ELSE IF Len(touches) = 2 /\ type # "logo"
     THEN /\ activeDrag' = IF activeDrag # "null" THEN PinchStartDrag ELSE activeDrag
          /\ animationFrameId' = IF activeDrag # "null" THEN handleDragEndFrame ELSE animationFrameId
          /\ rafQueue' = IF activeDrag # "null" THEN cancelDraw(rafQueue, animationFrameId) ELSE rafQueue
          /\ isPinching' = TRUE
          /\ isTouching' = FALSE
          /\ pinchSide' = type
          /\ initialPinchDistance' = calculateDistance(touches[1], touches[2])
          /\ zoomAtPinchStart' = zoom[type]
          /\ preemptedDrag' = activeDrag
          /\ UNCHANGED <<dragStart, initialDragFocus, initialLogoPos>>
     ELSE UNCHANGED <<gestureVars, animationFrameId, rafQueue>>
  /\ UNCHANGED <<slotVars, initialDrawTimeout, resizeObserver, undrawn, previewFrame, containerSize, transcribeVars, loadVars, saveVars>>

PinchZoomUnclamped(currentDist) ==
  (zoomAtPinchStart * currentDist) \div initialPinchDistance

\* the zoom a pinch move computes
PinchZoom(currentDist) ==
  clamp((zoomAtPinchStart * currentDist) \div initialPinchDistance, MIN_ZOOM, MAX_ZOOM)

handleTouchMove(touches) ==
  /\ TouchListenersAttached
  /\ Len(touches) = nTouches
  /\ IF isPinching /\ Len(touches) = 2 /\ pinchSide # "null"
     THEN IF initialPinchDistance <= 0
          THEN UNCHANGED <<slotVars, drawVars>>
          ELSE LET newZoom == PinchZoom(calculateDistance(touches[1], touches[2]))
               IN IF zoom[pinchSide] # newZoom
                  THEN /\ zoom' = [zoom EXCEPT ![pinchSide] = newZoom]
                       /\ Render(requestDraw(animationFrameId, CurrentDeps),
                                 DrawDeps(element, zoom', relativeFocus))
                       /\ rafQueue' = RenderQueue(requestDrawQueue(rafQueue, animationFrameId, CurrentDeps),
                                                 requestDraw(animationFrameId, CurrentDeps), DrawDeps(element, zoom', relativeFocus))
                       /\ UNCHANGED <<element, relativeFocus, logoPosition, loading>>
                  ELSE UNCHANGED <<slotVars, drawVars>>
     ELSE IF activeDrag # "null" /\ isTouching /\ Len(touches) = 1 /\ ~isPinching
     THEN handleDragMove(touches[1])
     ELSE UNCHANGED <<slotVars, drawVars>>
  /\ UNCHANGED <<gestureVars, containerSize, transcribeVars, nTouches, loadVars, saveVars>>

\* a handler that resets the gesture only when the last finger lifts
handleTouchEndLastFingerOnly(touchesRemaining) ==
  /\ touchesRemaining < nTouches
  /\ nTouches' = touchesRemaining
  /\ IF TouchListenersAttached /\ touchesRemaining = 0
     THEN /\ IF activeDrag # "null" /\ isTouching
             THEN activeDrag' = "null" /\ animationFrameId' = handleDragEndFrame
                                  /\ rafQueue' = cancelDraw(rafQueue, animationFrameId)
             ELSE UNCHANGED <<activeDrag, animationFrameId, rafQueue>>
          /\ isTouching' = FALSE
          /\ isPinching' = FALSE
          /\ pinchSide' = "null"
          /\ initialPinchDistance' = 0
          /\ preemptedDrag' = "null"
          /\ UNCHANGED <<dragStart, initialDragFocus, initialLogoPos, zoomAtPinchStart>>
     ELSE UNCHANGED <<gestureVars, animationFrameId, rafQueue>>
  /\ UNCHANGED <<slotVars, initialDrawTimeout, resizeObserver, undrawn, previewFrame, containerSize, transcribeVars, loadVars, saveVars>>

\* touchend and touchcancel share the handler
handleTouchEnd(touchesRemaining) ==
  /\ touchesRemaining < nTouches
  /\ nTouches' = touchesRemaining
  /\ IF ~TouchListenersAttached
     THEN UNCHANGED <<gestureVars, animationFrameId, rafQueue>>
     ELSE IF touchesRemaining = 0
     THEN /\ IF activeDrag # "null" /\ isTouching
             THEN activeDrag' = "null" /\ animationFrameId' = handleDragEndFrame
                                  /\ rafQueue' = cancelDraw(rafQueue, animationFrameId)
             ELSE UNCHANGED <<activeDrag, animationFrameId, rafQueue>>
          /\ isTouching' = FALSE
          /\ isPinching' = FALSE
          /\ pinchSide' = "null"
          /\ initialPinchDistance' = 0
          /\ preemptedDrag' = "null"
          /\ UNCHANGED <<dragStart, initialDragFocus, initialLogoPos, zoomAtPinchStart>>
     ELSE IF touchesRemaining < 2 /\ isPinching
     THEN /\ isPinching' = FALSE
          /\ pinchSide' = "null"
          /\ initialPinchDistance' = 0
          /\ preemptedDrag' = "null"
          /\ UNCHANGED <<activeDrag, animationFrameId, rafQueue, dragStart, initialDragFocus,
                         initialLogoPos, isTouching, zoomAtPinchStart>>
     ELSE UNCHANGED <<gestureVars, animationFrameId, rafQueue>>
  /\ UNCHANGED <<slotVars, initialDrawTimeout, resizeObserver, undrawn, previewFrame, containerSize, transcribeVars, loadVars, saveVars>>

\* a wheel handler that zooms both sides at once
handleWheelZoomBothSides(side, deltaY) ==
  LET zoomAmount == (deltaY * (0 - 15)) \div 100
      newZoom == clamp(zoom[side] + zoomAmount, MIN_ZOOM, MAX_ZOOM)
  IN /\ IF mediaExists(side) /\ newZoom # zoom[side]
        THEN /\ zoom' = [s \in Slots |-> IF s \in Sides THEN newZoom ELSE zoom[s]]
             /\ Render(requestDraw(animationFrameId, CurrentDeps),
                       DrawDeps(element, zoom', relativeFocus))
             /\ rafQueue' = RenderQueue(requestDrawQueue(rafQueue, animationFrameId, CurrentDeps),
                                        requestDraw(animationFrameId, CurrentDeps),
                                        DrawDeps(element, zoom', relativeFocus))
             /\ UNCHANGED <<element, relativeFocus, logoPosition, loading>>
        ELSE UNCHANGED <<slotVars, drawVars>>
     /\ UNCHANGED <<gestureVars, containerSize, transcribeVars, nTouches, loadVars, saveVars>>

handleWheelZoom(side, deltaY) ==
  LET zoomAmount == (deltaY * (0 - 15)) \div 100
      newZoom == clamp(zoom[side] + zoomAmount, MIN_ZOOM, MAX_ZOOM)
  IN /\ IF mediaExists(side) /\ newZoom # zoom[side]
        THEN /\ zoom' = [zoom EXCEPT ![side] = newZoom]
             /\ Render(requestDraw(animationFrameId, CurrentDeps),
                       DrawDeps(element, zoom', relativeFocus))
             /\ rafQueue' = RenderQueue(requestDrawQueue(rafQueue, animationFrameId, CurrentDeps),
                                       requestDraw(animationFrameId, CurrentDeps), DrawDeps(element, zoom', relativeFocus))
             /\ UNCHANGED <<element, relativeFocus, logoPosition, loading>>
        ELSE UNCHANGED <<slotVars, drawVars>>
     /\ UNCHANGED <<gestureVars, containerSize, transcribeVars, nTouches, loadVars, saveVars>>

\* ------------------------------------------------------ control panel
SliderEnabled(s) == mediaExists(s) /\ ~loading[s]

\* a slider hands its value to the parent's zoom setter as it is
SliderValue(v) == v

SetZoom(s, v) ==
  /\ zoom' = [zoom EXCEPT ![s] = SliderValue(v)]
  /\ Render(animationFrameId, DrawDeps(element, zoom', relativeFocus))
  /\ rafQueue' = RenderQueue(rafQueue, animationFrameId, DrawDeps(element, zoom', relativeFocus))
  /\ UNCHANGED <<element, relativeFocus, logoPosition, loading,
                 gestureVars, containerSize, transcribeVars, nTouches, loadVars, saveVars>>

\* control-panel.tsx: the three sliders run from 0.1 to 2
RelativeSlider(s, v) ==
  /\ SliderEnabled(s)
  /\ SetZoom(s, v)

\* the other control panel variant: MIN_ZOOM..MAX_ZOOM for the sides, 1..50 for the logo
PercentSlider(s, v) ==
  /\ SliderEnabled(s)
  /\ v \in (IF s = "logo" THEN LogoSliderStops ELSE SideSliderStops)
  /\ SetZoom(s, v)

LogoPositionInput(axis, text) ==
  /\ SliderEnabled("logo")
  /\ logoPosition' = [logoPosition EXCEPT ![axis] = clamp(Number(text), 0, 100)]
  /\ UNCHANGED <<element, zoom, relativeFocus, loading, gestureVars, drawVars,
                 containerSize, transcribeVars, nTouches, loadVars, saveVars>>

\* ------------------------------------------------------ media loading
MaxAttempts == 2
RevokeCap == 2

DefaultZoom(s) == IF s = "logo" THEN 10 ELSE 100
DefaultFocus == [x |-> 500, y |-> 500]
DefaultLogoPosition == [x |-> 50, y |-> 90]

\* URL.revokeObjectURL(u), counted up to RevokeCap
Revoke(rv, u) == IF u = 0 THEN rv ELSE [rv EXCEPT ![u] = Min2(@ + 1, RevokeCap)]

\* cleanupObjectURL: revokes the element's src when it is a blob: URL
cleanupObjectURL(rv, el) == IF el.kind # "none" /\ el.url # 0 THEN Revoke(rv, el.url) ELSE rv

\* cleanup of the mount effect, whose closure holds the three elements of its render
MountEffectCleanup(rv, els) ==
  cleanupObjectURL(cleanupObjectURL(cleanupObjectURL(rv, els["left"]), els["right"]), els["logo"])

\* commit of a render with elements newEls: the mount effect depends on the three
\* elements, so a changed element runs its cleanup with the elements of the last render
CommitElements(rv, newEls) == IF newEls # element THEN MountEffectCleanup(rv, element) ELSE rv

SetLoadError(s, e) ==
  /\ loadError' = [loadError EXCEPT ![s] = e]
  /\ UNCHANGED <<slotVars, gestureVars, drawVars, containerSize, transcribeVars, nTouches, media, mediaType,
                 attempts, nextAttempt, revokes, isMounted, saveVars>>

\* synchronous part of loadMediaEffect / loadLogoEffect for a non-null source
StartLoad(s, f, type) ==
  LET els == [element EXCEPT ![s] = NoElement]
      needsBlob == ~(s = "logo" /\ FileInfo(f).svg)
  IN /\ media' = [media EXCEPT ![s] = f]
     /\ mediaType' = IF s \in Sides THEN [mediaType EXCEPT ![s] = type] ELSE mediaType
     /\ loading' = [loading EXCEPT ![s] = TRUE]
     /\ element' = els
     /\ revokes' = CommitElements(cleanupObjectURL(revokes, element[s]), els)
     /\ loadError' = [loadError EXCEPT ![s] = "null"]
     /\ saveError' = "null"
     /\ zoom' = [zoom EXCEPT ![s] = DefaultZoom(s)]
     /\ relativeFocus' = IF s \in Sides THEN [relativeFocus EXCEPT ![s] = DefaultFocus]
                         ELSE relativeFocus
     /\ logoPosition' = IF s = "logo" THEN DefaultLogoPosition ELSE logoPosition
     /\ attempts' = attempts \cup
          {[id |-> EarlierRuns + nextAttempt, slot |-> s, src |-> f, type |-> type, url |-> 0,
            stage |-> IF needsBlob THEN "fetch" ELSE "decode"]}
     /\ nextAttempt' = nextAttempt + 1
     /\ Render(animationFrameId, DrawDeps(els, zoom', relativeFocus'))
     /\ rafQueue' = RenderQueue(rafQueue, animationFrameId, DrawDeps(els, zoom', relativeFocus'))
     /\ UNCHANGED <<gestureVars, containerSize, transcribeVars, nTouches, isMounted, isSaving,
                    toBlobPending, canvases, downloads, exportFrame>>

\* onFileSelect of a MediaUploadCard with the FileReader result
onFileSelect(s, f, readOk) ==
  LET detectedType == FileInfo(f).mime
  IN /\ isMounted
     /\ IF s = "logo" /\ detectedType # "image" THEN SetLoadError(s, "unsupportedFile")
        ELSE IF ~readOk THEN SetLoadError(s, "readError")
        ELSE IF detectedType = "other" THEN SetLoadError(s, "unsupportedFile")
        ELSE IF media[s] = f /\ (s \in Sides => mediaType[s] = detectedType)
        THEN SetLoadError(s, "null")
        ELSE nextAttempt <= MaxAttempts /\ StartLoad(s, f, IF s = "logo" THEN "image" ELSE detectedType)

\* fetch(url), response.blob() and URL.createObjectURL of a load run
BlobCreated(a, ok) ==
  /\ a \in attempts /\ a.stage = "fetch"
  /\ IF ok
     THEN /\ attempts' = (attempts \ {a}) \cup {[a EXCEPT !.stage = "decode", !.url = a.id]}
          /\ revokes' = revokes @@ (a.id :> 0)
          /\ UNCHANGED <<loadError, loading>>
     ELSE IF a.slot = "logo"
     THEN /\ attempts' = attempts \ {a}
          /\ loading' = IF isMounted THEN [loading EXCEPT ![a.slot] = FALSE] ELSE loading
          /\ loadError' = IF isMounted THEN [loadError EXCEPT ![a.slot] = "blobFailed"] ELSE loadError
          /\ UNCHANGED revokes
     ELSE /\ attempts' = (attempts \ {a}) \cup {[a EXCEPT !.stage = "decode"]}
          /\ loadError' = IF isMounted THEN [loadError EXCEPT ![a.slot] = "blobFailed"] ELSE loadError
          /\ UNCHANGED <<revokes, loading>>
  /\ UNCHANGED <<element, zoom, relativeFocus, logoPosition, gestureVars, drawVars, containerSize, transcribeVars,
                 nTouches, media, mediaType, nextAttempt, isMounted, saveVars>>

\* the promise of loadMediaElement takes the first resolve or reject only
PromisePendingAlways(a) == TRUE

PromisePending(a) == a.stage = "decode"

\* the error the catch block of a load run records for a rejection
LoadErrorMessage(outcome) == "loadFailed"

LoadContinuationUnguarded(a, outcome) ==
  LET el == LoadedElement(a.src, a.type, a.url, a.id)
      els == [element EXCEPT ![a.slot] = IF outcome = "loaded" THEN el ELSE NoElement]
  IN /\ element' = els
     /\ revokes' =
          IF outcome = "loaded" THEN CommitElements(revokes, els)
          ELSE CommitElements(Revoke(revokes, a.url), els)
     /\ loadError' = IF outcome # "loaded"
                     THEN [loadError EXCEPT ![a.slot] = LoadErrorMessage(outcome)] ELSE loadError
     /\ loading' = [loading EXCEPT ![a.slot] = FALSE]
     /\ Render(animationFrameId, DrawDeps(els, zoom, relativeFocus))
     /\ rafQueue' = RenderQueue(rafQueue, animationFrameId, DrawDeps(els, zoom, relativeFocus))

\* the rest of the load run after await loadMediaElement(...)
LoadContinuation(a, outcome) ==
  LET el == LoadedElement(a.src, a.type, a.url, a.id)
      els == IF ~isMounted THEN element
             ELSE [element EXCEPT ![a.slot] = IF outcome = "loaded" THEN el ELSE NoElement]
  IN /\ element' = els
     /\ revokes' =
          IF outcome = "loaded"
          THEN IF isMounted THEN CommitElements(revokes, els)
               ELSE Revoke(cleanupObjectURL(revokes, el), a.url)
          ELSE CommitElements(Revoke(revokes, a.url), els)
     /\ loadError' = IF isMounted /\ outcome # "loaded"
                     THEN [loadError EXCEPT ![a.slot] = LoadErrorMessage(outcome)] ELSE loadError
     /\ loading' = IF isMounted THEN [loading EXCEPT ![a.slot] = FALSE] ELSE loading
     /\ Render(animationFrameId, DrawDeps(els, zoom, relativeFocus))
     /\ rafQueue' = RenderQueue(rafQueue, animationFrameId, DrawDeps(els, zoom, relativeFocus))

\* a load / error event of the element of a load run, or its 20 s timer
LoadEvent(a, outcome) ==
  /\ a \in attempts /\ a.stage \in {"decode", "timedout"}
  /\ outcome = "timeout" => a.stage = "decode"
  /\ attempts' = IF outcome = "timeout"
                 THEN (attempts \ {a}) \cup {[a EXCEPT !.stage = "timedout"]}
                 ELSE attempts \ {a}
  /\ IF PromisePending(a)
     THEN LoadContinuation(a, outcome)
     ELSE UNCHANGED <<element, revokes, loadError, loading, drawVars>>
  /\ UNCHANGED <<zoom, relativeFocus, logoPosition, gestureVars, containerSize, transcribeVars, nTouches,
                 media, mediaType, nextAttempt, isMounted, saveVars>>

Unmount ==
  /\ isMounted
  /\ isMounted' = FALSE
  /\ revokes' = MountEffectCleanup(revokes, element)
  /\ animationFrameId' = ResizeEffectCleanup(animationFrameId)
  /\ rafQueue' = cancelDraw(rafQueue, animationFrameId)
  /\ initialDrawTimeout' = NoFrame
  /\ resizeObserver' = [resizeObserver EXCEPT !.notify = FALSE]
  /\ UNCHANGED <<slotVars, gestureVars, undrawn, previewFrame, containerSize, transcribeVars, nTouches, media, mediaType,
                 loadError, attempts, nextAttempt, saveVars>>

\* ------------------------------------------------------ export
MaxExports == 2

IsLoadedImage(el) == el.kind = "image" /\ el.w > 0 /\ el.h > 0

canSaveCompositeAnyMedia ==
  /\ element["left"].kind # "none"
  /\ element["right"].kind # "none"
  /\ (media["logo"] = 0 \/ (IsLoadedImage(element["logo"]) /\ ~loading["logo"]))
  /\ ~loading["left"] /\ ~loading["right"]

canSaveComposite ==
  /\ IsLoadedImage(element["left"])
  /\ IsLoadedImage(element["right"])
  /\ (media["logo"] = 0 \/ (IsLoadedImage(element["logo"]) /\ ~loading["logo"]))
  /\ ~loading["left"] /\ ~loading["right"]

\* DownloadSection: disabled={!canSave || isSaving || isLoadingAny}
SaveButtonEnabled ==
  canSaveComposite /\ ~isSaving /\ ~(loading["left"] \/ loading["right"] \/ loading["logo"])

\* ---- framing: what the preview and the exporter draw
NoExport == [w |-> 0, h |-> 0, left |-> NoRect, right |-> NoRect, logo |-> NoRect]

\* drawPreviewCanvases: the preview's draw of one side in the current container
PreviewCrop(side) ==
  IF ~ContainerVisible
  THEN NoRect
  ELSE drawMediaSection(element[side], containerSize.w, Max2(1, containerSize.h),
                        zoom[side], relativeFocus[side])

\* getLogoStyle: the box of the logo overlay in the preview container
getLogoStyle ==
  IF ~IsLoadedImage(element["logo"]) \/ ~ContainerVisible
  THEN NoRect
  ELSE LET previewLogoWidthPx == Frac(containerSize.w * zoom["logo"], 100)
           aspectRatio == Frac(element["logo"].h, element["logo"].w)
           previewLogoHeightPx == RMul(previewLogoWidthPx, aspectRatio)
           logoCenterX == Frac(containerSize.w * logoPosition.x, 100)
           logoCenterY == Frac(containerSize.h * logoPosition.y, 100)
       IN [x |-> RSub(logoCenterX, RDiv(previewLogoWidthPx, Whole(2))),
           y |-> RSub(logoCenterY, RDiv(previewLogoHeightPx, Whole(2))),
           w |-> previewLogoWidthPx,
           h |-> previewLogoHeightPx]

\* size of the export canvas
targetWidthPerImage == Max2(Max2(element["left"].w, element["right"].w), 500)
finalWidth == targetWidthPerImage * 2
displayAspect ==
  IF containerSize.w > 0 /\ containerSize.h > 0
  THEN Frac(containerSize.w, containerSize.h)
  ELSE Frac(16, 9)
finalHeightFloor == Floor(RDiv(Whole(finalWidth), displayAspect))
finalHeight == Ceil(RDiv(Whole(finalWidth), displayAspect))

\* the source rectangle drawFinalMedia of the exporter hands to ctx.drawImage
drawFinalMedia(mediaElement, outputWidth, outputHeight, zoomPercent, focus) ==
  IF mediaElement.w <= 0 \/ mediaElement.h <= 0 \/ zoomPercent <= 0
  THEN NoRect
  ELSE LET sectionWidth == Frac(outputWidth, 2)
           sectionHeight == Whole(outputHeight)
           sourceWidth == Whole(mediaElement.w)
           sourceHeight == Whole(mediaElement.h)
           overallScale == Frac(zoomPercent, 100)
           sourceAspect == RDiv(sourceWidth, sourceHeight)
           destAspect == RDiv(sectionWidth, sectionHeight)
           coverScale == IF ~RLeq(sourceAspect, destAspect)
                         THEN RDiv(sectionHeight, sourceHeight)
                         ELSE RDiv(sectionWidth, sourceWidth)
           finalScale == RMul(coverScale, overallScale)
           sWidthFinal == RDiv(sectionWidth, finalScale)
           sHeightFinal == RDiv(sectionHeight, finalScale)
           sxIdeal == RSub(RMul(sourceWidth, Frac(focus.x, FocusUnit)), RDiv(sWidthFinal, Whole(2)))
           syIdeal == RSub(RMul(sourceHeight, Frac(focus.y, FocusUnit)), RDiv(sHeightFinal, Whole(2)))
       IN [sx |-> RClamp(sxIdeal, Whole(0), RMax(Whole(0), RSub(sourceWidth, sWidthFinal))),
           sy |-> RClamp(syIdeal, Whole(0), RMax(Whole(0), RSub(sourceHeight, sHeightFinal))),
           sWidth |-> sWidthFinal,
           sHeight |-> sHeightFinal]

\* the rectangle the exporter draws the logo into
FinalLogo ==
  IF element["logo"].kind # "image"
  THEN NoRect
  ELSE LET safeLogoElement == element["logo"]
           \* 0 / 0 is NaN and replaced by 1; a decoded image has both dimensions or neither
           logoAspectRatio == IF safeLogoElement.w = 0 THEN Whole(1)
                              ELSE Frac(safeLogoElement.h, safeLogoElement.w)
           targetLogoWidth == Frac(finalWidth * zoom["logo"], 100)
           targetLogoHeight == RMul(targetLogoWidth, logoAspectRatio)
           logoCenterX == Frac(finalWidth * logoPosition.x, 100)
           logoCenterY == Frac(finalHeight * logoPosition.y, 100)
           logoDrawX == RSub(logoCenterX, RDiv(targetLogoWidth, Whole(2)))
           logoDrawY == RSub(logoCenterY, RDiv(targetLogoHeight, Whole(2)))
       IN IF targetLogoWidth[1] > 0 /\ targetLogoHeight[1] > 0
          THEN [x |-> RClamp(logoDrawX, Whole(0),
                             RMax(Whole(0), RSub(Whole(finalWidth), targetLogoWidth))),
                y |-> RClamp(logoDrawY, Whole(0),
                             RMax(Whole(0), RSub(Whole(finalHeight), targetLogoHeight))),
                w |-> targetLogoWidth,
                h |-> targetLogoHeight]
          ELSE NoRect

\* the export canvas after the two halves and the logo were drawn
FinalCanvas ==
  [w |-> finalWidth, h |-> finalHeight,
   left |-> drawFinalMedia(element["left"], finalWidth, finalHeight,
                           zoom["left"], relativeFocus["left"]),
   right |-> drawFinalMedia(element["right"], finalWidth, finalHeight,
                            zoom["right"], relativeFocus["right"]),
   logo |-> FinalLogo]

\* an exporter that also clears the load errors of the slots
saveCompositeImageClearsErrors(contextOk) ==
  /\ isMounted
  /\ loadError' = [s \in Slots |-> "null"]
  /\ IF ~canSaveComposite
     THEN /\ saveError' = "notReady"
          /\ UNCHANGED <<isSaving, toBlobPending, canvases, downloads, exportFrame>>
     ELSE /\ canvases < MaxExports
          /\ canvases' = canvases + 1
          /\ isSaving' = contextOk
          /\ saveError' = IF contextOk THEN "null" ELSE "saveFailed"
          /\ toBlobPending' = IF contextOk THEN toBlobPending + 1 ELSE toBlobPending
          /\ exportFrame' = IF contextOk THEN FinalCanvas
                            ELSE [NoExport EXCEPT !.w = finalWidth, !.h = finalHeight]
          /\ UNCHANGED downloads
  /\ UNCHANGED <<slotVars, gestureVars, drawVars, containerSize, transcribeVars, nTouches, media, mediaType,
                 attempts, nextAttempt, revokes, isMounted>>

\* saveCompositeImage up to the canvas.toBlob call; contextOk is whether
\* canvas.getContext('2d') returned a context
saveCompositeImage(contextOk) ==
  /\ isMounted
  /\ IF ~canSaveComposite
     THEN /\ saveError' = "notReady"
          /\ UNCHANGED <<isSaving, toBlobPending, canvases, downloads, exportFrame>>
     ELSE /\ canvases < MaxExports
          /\ canvases' = canvases + 1
          /\ IF contextOk
             THEN /\ isSaving' = TRUE
                  /\ saveError' = "null"
                  /\ toBlobPending' = toBlobPending + 1
                  /\ exportFrame' = FinalCanvas
             ELSE /\ isSaving' = FALSE
                  /\ saveError' = "saveFailed"
                  /\ exportFrame' = [NoExport EXCEPT !.w = finalWidth, !.h = finalHeight]
                  /\ UNCHANGED toBlobPending
          /\ UNCHANGED downloads
  /\ UNCHANGED <<slotVars, gestureVars, drawVars, containerSize, transcribeVars, nTouches, loadVars>>

\* a callback that starts the download whether or not encoding produced data
ToBlobCallbackAlwaysDownloads(blobOk) ==
  /\ toBlobPending > 0
  /\ toBlobPending' = toBlobPending - 1
  /\ IF isMounted
     THEN /\ downloads' = downloads + 1
          /\ isSaving' = FALSE
          /\ UNCHANGED saveError
     ELSE UNCHANGED <<downloads, isSaving, saveError>>
  /\ UNCHANGED <<canvases, exportFrame, slotVars, gestureVars, drawVars, containerSize, transcribeVars,
                 nTouches, loadVars>>

\* the callback of canvas.toBlob
ToBlobCallback(blobOk) ==
  /\ toBlobPending > 0
  /\ toBlobPending' = toBlobPending - 1
  /\ IF blobOk /\ isMounted
     THEN /\ downloads' = downloads + 1
          /\ isSaving' = FALSE
          /\ UNCHANGED saveError
     ELSE IF ~isMounted
     THEN UNCHANGED <<downloads, isSaving, saveError>>
     ELSE /\ saveError' = "blobFailed"
          /\ isSaving' = FALSE
          /\ UNCHANGED downloads
  /\ UNCHANGED <<canvases, exportFrame, slotVars, gestureVars, drawVars, containerSize, transcribeVars,
                 nTouches, loadVars>>

\* ------------------------------------------------------ transcription action
\* (texts are kept without their diacritics)
maxAttempts == 20
PublicIds == {1, 2}
NoReturn == <<>>

\* what cloudinary.api.resource settles with: a rejection, a resource without
\* info.raw_convert.google_speech, or one whose google_speech carries a status
ResourceResults ==
  {[rejects |-> TRUE, google_speech |-> FALSE, status |-> "pending"],
   [rejects |-> FALSE, google_speech |-> FALSE, status |-> "pending"]}
  \cup {[rejects |-> FALSE, google_speech |-> TRUE, status |-> st] :
          st \in {"pending", "complete", "failed"}}

checkTranscriptionStatus(result) ==
  IF result.rejects
  THEN [threw |-> TRUE, value |-> "Failed to check transcription status"]
  ELSE [threw |-> FALSE, value |-> IF result.google_speech THEN result.status ELSE "pending"]

generateSubtitledVideoUrl(id) ==
  [resource_type |-> "video", public_id |-> id,
   overlay |-> [resource_type |-> "subtitles", public_id |-> <<id, ".transcript">>]]

Success(url) ==
  [success |-> <<"Transcricao completada com sucesso!">>, subtitledVideoUrl |-> url]
Failed == [error |-> <<"Transcricao falhou">>]
TimedOut == [error |-> <<"Tempo limite excedido ao processar o video">>]
\* the catch block: the prefix followed by the message of what was thrown
Caught(message) == [error |-> <<"Erro no processo de transcricao: ", message>>]
UpdateRejection == "update rejected"

NoTranscription ==
  /\ publicId = 0
  /\ awaiting = "none"
  /\ attempt = 0
  /\ status = "pending"
  /\ returned = NoReturn
  /\ checks = 0
  /\ reported = {}

\* the action is called: it awaits cloudinary.api.update
initiateTranscription(id) ==
  /\ awaiting = "none" /\ returned = NoReturn
  /\ publicId' = id
  /\ awaiting' = "update"
  /\ UNCHANGED <<attempt, status, returned, checks, reported>>
  /\ UNCHANGED <<slotVars, gestureVars, drawVars, containerSize, nTouches, loadVars, saveVars>>

\* cloudinary.api.update settles; on success the loop starts with its first check
UpdateSettles(ok) ==
  /\ awaiting = "update"
  /\ IF ok
     THEN /\ status' = "pending"
          /\ attempt' = 0
          /\ awaiting' = "check"
          /\ checks' = checks + 1
          /\ UNCHANGED returned
     ELSE /\ returned' = Caught(UpdateRejection)
          /\ awaiting' = "none"
          /\ UNCHANGED <<status, attempt, checks>>
  /\ UNCHANGED <<publicId, reported>>
  /\ UNCHANGED <<slotVars, gestureVars, drawVars, containerSize, nTouches, loadVars, saveVars>>

\* the awaited checkTranscriptionStatus settles and the loop body runs up to the
\* next await or return
CheckSettles(result) ==
  /\ awaiting = "check"
  /\ LET check == checkTranscriptionStatus(result)
     IN IF check.threw
        THEN /\ returned' = Caught(check.value)
             /\ awaiting' = "none"
             /\ reported' = reported \cup {"threw"}
             /\ UNCHANGED status
        ELSE /\ status' = check.value
             /\ reported' = reported \cup {check.value}
             /\ IF check.value = "complete"
                THEN /\ returned' = Success(generateSubtitledVideoUrl(publicId))
                     /\ awaiting' = "none"
                ELSE IF check.value = "failed"
                THEN /\ returned' = Failed
                     /\ awaiting' = "none"
                ELSE /\ awaiting' = "delay"
                     /\ UNCHANGED returned
  /\ UNCHANGED <<publicId, attempt, checks>>
  /\ UNCHANGED <<slotVars, gestureVars, drawVars, containerSize, nTouches, loadVars, saveVars>>

\* the same step with the loop counter allowed to reach maxAttempts
DelayElapsesInclusive ==
  /\ awaiting = "delay"
  /\ attempt' = attempt + 1
  /\ IF attempt' <= maxAttempts
     THEN /\ awaiting' = "check"
          /\ checks' = checks + 1
          /\ UNCHANGED returned
     ELSE /\ returned' = TimedOut
          /\ awaiting' = "none"
          /\ UNCHANGED checks
  /\ UNCHANGED <<publicId, status, reported>>
  /\ UNCHANGED <<slotVars, gestureVars, drawVars, containerSize, nTouches, loadVars, saveVars>>

\* the 2000 ms timer fires: attempt++, then the loop test
DelayElapses ==
  /\ awaiting = "delay"
  /\ attempt' = attempt + 1
  /\ IF attempt' < maxAttempts
     THEN /\ awaiting' = "check"
          /\ checks' = checks + 1
          /\ UNCHANGED returned
     ELSE /\ returned' = TimedOut
          /\ awaiting' = "none"
          /\ UNCHANGED checks
  /\ UNCHANGED <<publicId, status, reported>>
  /\ UNCHANGED <<slotVars, gestureVars, drawVars, containerSize, nTouches, loadVars, saveVars>>

\* ------------------------------------------------------ specification
InitGesture ==
  /\ element \in ElementConfigs
  /\ zoom = [left |-> 100, right |-> 100, logo |-> 10]
  /\ relativeFocus = [left |-> [x |-> 500, y |-> 500], right |-> [x |-> 500, y |-> 500]]
  /\ logoPosition = [x |-> 50, y |-> 90]
  /\ loading = [s \in Slots |-> FALSE]
  /\ activeDrag = "null"
  /\ dragStart = [x |-> 0, y |-> 0]
  /\ initialDragFocus = [x |-> 500, y |-> 500]
  /\ initialLogoPos = [x |-> 50, y |-> 90]
  /\ isTouching = FALSE
  /\ isPinching = FALSE
  /\ initialPinchDistance = 0
  /\ pinchSide = "null"
  /\ zoomAtPinchStart = 100
  /\ preemptedDrag = "null"
  /\ animationFrameId = CurrentDeps
  /\ rafQueue = <<CurrentDeps>>
  /\ initialDrawTimeout = CurrentDeps
  /\ resizeObserver = [closure |-> CurrentDeps, notify |-> TRUE]
  /\ containerSize = [w |-> 600, h |-> 450]
  /\ undrawn = TRUE
  /\ previewFrame = NoPreview
  /\ nTouches = 0
  /\ media = [s \in Slots |-> element[s].src]
  /\ mediaType = [s \in Sides |-> IF element[s].kind = "none" THEN "null" ELSE element[s].kind]
  /\ loadError = [s \in Slots |-> "null"]
  /\ attempts = {}
  /\ nextAttempt = 1
  /\ revokes = [u \in {element[s].url : s \in Slots} \ {0} |-> 0]
  /\ isMounted = TRUE
  /\ isSaving = FALSE
  /\ saveError = "null"
  /\ toBlobPending = 0
  /\ canvases = 0
  /\ downloads = 0
  /\ exportFrame = NoExport
  /\ NoTranscription

NextGesture ==
  \/ \E type \in Slots, button \in Buttons, p \in Points : MouseDown(type, button, p)
  \/ \E p \in Points : MouseMove(p)
  \/ \E button \in Buttons : MouseUp(button)
  \/ \E type \in Slots, touches \in TouchLists : handleTouchStart(type, touches)
  \/ \E touches \in TouchLists : handleTouchMove(touches)
  \/ \E n \in 0..(MaxTouches - 1) : handleTouchEnd(n)
  \/ \E input \in PositionInputs : LogoPositionInput(input[1], input[2])

SpecGesture == InitGesture /\ [][NextGesture]_vars

\* the gestures, and the unmount of the component at any moment
NextSession ==
  \/ NextGesture
  \/ Unmount

SpecSession == InitGesture /\ [][NextSession]_vars

\* the wheel amid drags and pinches
NextWheel ==
  \/ \E type \in Slots, p \in Points : MouseDown(type, 0, p)
  \/ MouseUp(0)
  \/ \E type \in Slots, touches \in TouchLists : handleTouchStart(type, touches)
  \/ \E n \in 0..(MaxTouches - 1) : handleTouchEnd(n)
  \/ \E side \in Sides, deltaY \in WheelNotches : handleWheelZoom(side, deltaY)

SpecWheel == InitGesture /\ [][NextWheel]_vars

\* mouse and touch drags in small steps
NextDrag ==
  \/ \E type \in Slots, p \in DragPoints : MouseDown(type, 0, p)
  \/ \E p \in DragPoints : MouseMove(p)
  \/ MouseUp(0)
  \/ \E type \in Slots, p \in DragPoints : handleTouchStart(type, <<p>>)
  \/ \E p \in DragPoints : handleTouchMove(<<p>>)
  \/ handleTouchEnd(0)

SpecDrag == InitGesture /\ [][NextDrag]_vars

\* the zoom writers: control panel sliders, wheel and pinch
NextPanel ==
  \/ \E s \in Slots, v \in RelativeSliderStops : RelativeSlider(s, v)
  \/ \E s \in Slots, v \in SideSliderStops \cup LogoSliderStops : PercentSlider(s, v)
  \/ \E side \in Sides, deltaY \in WheelDeltas : handleWheelZoom(side, deltaY)
  \/ \E type \in Slots, touches \in TouchLists : handleTouchStart(type, touches)
  \/ \E touches \in TouchLists : handleTouchMove(touches)
  \/ \E n \in 0..(MaxTouches - 1) : handleTouchEnd(n)

SpecPanel == InitGesture /\ [][NextPanel]_vars

\* preview draw scheduling under mouse drags, wheel zoom and resizes
NextDraw ==
  \/ \E type \in Slots, p \in Points : MouseDown(type, 0, p)
  \/ \E p \in Points : MouseMove(p)
  \/ MouseUp(0)
  \/ \E side \in Sides, deltaY \in WheelDeltas : handleWheelZoom(side, deltaY)
  \/ AnimationFrame
  \/ InitialDrawTimeoutFires
  \/ \E size \in ContainerSizes : ContainerResize(size)

SpecDraw == InitGesture /\ [][NextDraw]_vars

\* the state after construction: nothing selected, first draw requested
InitLoad ==
  /\ element = [s \in Slots |-> NoElement]
  /\ zoom = [s \in Slots |-> DefaultZoom(s)]
  /\ relativeFocus = [s \in Sides |-> DefaultFocus]
  /\ logoPosition = DefaultLogoPosition
  /\ loading = [s \in Slots |-> FALSE]
  /\ activeDrag = "null"
  /\ dragStart = [x |-> 0, y |-> 0]
  /\ initialDragFocus = DefaultFocus
  /\ initialLogoPos = DefaultLogoPosition
  /\ isTouching = FALSE
  /\ isPinching = FALSE
  /\ initialPinchDistance = 0
  /\ pinchSide = "null"
  /\ zoomAtPinchStart = 100
  /\ preemptedDrag = "null"
  /\ animationFrameId = CurrentDeps
  /\ rafQueue = <<CurrentDeps>>
  /\ initialDrawTimeout = CurrentDeps
  /\ resizeObserver = [closure |-> CurrentDeps, notify |-> TRUE]
  /\ containerSize = [w |-> 600, h |-> 450]
  /\ undrawn = TRUE
  /\ previewFrame = NoPreview
  /\ nTouches = 0
  /\ media = [s \in Slots |-> 0]
  /\ mediaType = [s \in Sides |-> "null"]
  /\ loadError = [s \in Slots |-> "null"]
  /\ attempts = {}
  /\ nextAttempt = 1
  /\ revokes = <<>>
  /\ isMounted = TRUE
  /\ isSaving = FALSE
  /\ saveError = "null"
  /\ toBlobPending = 0
  /\ canvases = 0
  /\ downloads = 0
  /\ exportFrame = NoExport
  /\ NoTranscription

\* file selections, load runs, teardown and export
NextLoad ==
  \/ \E sel \in LoadSelections : onFileSelect(sel[1], sel[2], sel[3])
  \/ \E a \in attempts, ok \in BOOLEAN : BlobCreated(a, ok)
  \/ \E a \in attempts, outcome \in LoadOutcomes : LoadEvent(a, outcome)
  \/ Unmount

SpecLoad == InitLoad /\ [][NextLoad]_vars

\* export attempts while the right side and the logo are selected and loaded
NextExport ==
  \/ \E sel \in ExportSelections : onFileSelect(sel[1], sel[2], sel[3])
  \/ \E a \in attempts, ok \in BOOLEAN : BlobCreated(a, ok)
  \/ \E a \in attempts, outcome \in LoadOutcomes : LoadEvent(a, outcome)
  \/ \E contextOk \in BOOLEAN : saveCompositeImage(contextOk)
  \/ \E blobOk \in BOOLEAN : ToBlobCallback(blobOk)
  \/ Unmount

SpecExport == InitGesture /\ [][NextExport]_vars

\* the exporter on loaded slots in any of the sampled slot states
InitFrame ==
  /\ element \in FrameConfigs
  /\ zoom \in FrameZooms
  /\ relativeFocus \in FrameFocuses
  /\ logoPosition \in FrameLogoPositions
  /\ loading = [s \in Slots |-> FALSE]
  /\ activeDrag = "null"
  /\ dragStart = [x |-> 0, y |-> 0]
  /\ initialDragFocus = [x |-> 500, y |-> 500]
  /\ initialLogoPos = [x |-> 50, y |-> 90]
  /\ isTouching = FALSE
  /\ isPinching = FALSE
  /\ initialPinchDistance = 0
  /\ pinchSide = "null"
  /\ zoomAtPinchStart = 100
  /\ preemptedDrag = "null"
  /\ animationFrameId = CurrentDeps
  /\ rafQueue = <<CurrentDeps>>
  /\ initialDrawTimeout = NoFrame
  /\ resizeObserver = [closure |-> CurrentDeps, notify |-> FALSE]
  /\ containerSize \in FrameContainerSizes
  /\ undrawn = TRUE
  /\ previewFrame = NoPreview
  /\ nTouches = 0
  /\ media = [s \in Slots |-> element[s].src]
  /\ mediaType = [s \in Sides |-> element[s].kind]
  /\ loadError = [s \in Slots |-> "null"]
  /\ attempts = {}
  /\ nextAttempt = 1
  /\ revokes = [u \in {element[s].url : s \in Slots} \ {0} |-> 0]
  /\ isMounted = TRUE
  /\ isSaving = FALSE
  /\ saveError = "null"
  /\ toBlobPending = 0
  /\ canvases = 0
  /\ downloads = 0
  /\ exportFrame = NoExport
  /\ NoTranscription

NextFrame ==
  \/ \E contextOk \in BOOLEAN : saveCompositeImage(contextOk)
  \/ \E blobOk \in BOOLEAN : ToBlobCallback(blobOk)
  \/ AnimationFrame

SpecFrame == InitFrame /\ [][NextFrame]_vars

\* one call of the transcription action against any run of the Cloudinary API
NextTranscribe ==
  \/ \E id \in PublicIds : initiateTranscription(id)
  \/ \E ok \in BOOLEAN : UpdateSettles(ok)
  \/ \E result \in ResourceResults : CheckSettles(result)
  \/ DelayElapses

SpecTranscribe == InitGesture /\ [][NextTranscribe]_vars

\* every awaited promise settles: the requests answer or fail, the timer fires
LiveTranscribe ==
  /\ SpecTranscribe
  /\ WF_vars(\E ok \in BOOLEAN : UpdateSettles(ok))
  /\ WF_vars(\E result \in ResourceResults : CheckSettles(result))
  /\ WF_vars(DelayElapses)

\* ------------------------------------------------------ properties
\* C1: a drag session and a pinch session are never active at the same time.
DragPinchExclusive == ~(activeDrag # "null" /\ isPinching)

\* a pinch is running that cancelled a drag when it started
PinchPreemptedDrag == isPinching /\ preemptedDrag # "null" /\ activeDrag = "null"

\* C9: a two-finger touch start over a loaded side during a drag cancels the
\* drag and starts a pinch on that side with the current finger distance as
\* baseline and the side's zoom as snapshot; the focus then changes no more
\* without a new drag; every two-finger move of the pinch stores
\* clamp(snapshot * distance / baseline, 10, 500) as the side's zoom.
PinchPreemptsDragAndScales ==
  [][ /\ \A side \in Sides, t \in TouchPairs :
           (activeDrag # "null" /\ mediaExists(side) /\ nTouches < 2 /\ nTouches' = 2
              /\ handleTouchStart(side, t))
             => /\ activeDrag' = "null"
                /\ isPinching' /\ pinchSide' = side
                /\ initialPinchDistance' = calculateDistance(t[1], t[2])
                /\ zoomAtPinchStart' = zoom[side]
      /\ (relativeFocus' # relativeFocus => activeDrag # "null" /\ ~isPinching)
      /\ \A t \in TouchPairs :
           (isPinching /\ pinchSide \in Sides /\ initialPinchDistance > 0 /\ nTouches = 2
              /\ nTouches' = 2 /\ handleTouchMove(t))
             => zoom'[pinchSide] =
                  clamp((zoomAtPinchStart * calculateDistance(t[1], t[2])) \div initialPinchDistance, 10, 500)
    ]_vars

\* C4: the pending draw pass reads the current slot state, and a change that
\* no draw pass has painted always has a draw on the way (a pending frame,
\* the initial-draw timer or a due resize notification).
NoStaleDraw == animationFrameId # NoFrame => animationFrameId = CurrentDeps
DrawOnTheWay ==
  animationFrameId # NoFrame \/ initialDrawTimeout # NoFrame \/ resizeObserver.notify
EveryChangeDrawnFresh ==
  /\ NoStaleDraw
  /\ (undrawn /\ ContainerVisible) => DrawOnTheWay

\* C6: the stored zoom of the sides lies in [10,500], that of the logo in [1,50].
ZoomInRange ==
  /\ \A side \in Sides : zoom[side] >= 10 /\ zoom[side] <= 500
  /\ zoom["logo"] >= 1 /\ zoom["logo"] <= 50

\* C7: every focus lies in [0,1] x [0,1], the logo position in [0,100] x [0,100],
\* and typing 150 or -10 in a position input stores 100 or 0.
FocusAndPositionInRange ==
  /\ [](/\ \A side \in Sides :
            /\ relativeFocus[side].x >= 0 /\ relativeFocus[side].x <= FocusUnit
            /\ relativeFocus[side].y >= 0 /\ relativeFocus[side].y <= FocusUnit
        /\ logoPosition.x >= 0 /\ logoPosition.x <= 100
        /\ logoPosition.y >= 0 /\ logoPosition.y <= 100)
  /\ [][\A input \in PositionInputs :
          (relativeFocus' = relativeFocus /\ LogoPositionInput(input[1], input[2])) =>
            /\ (input[2] = Typed150 => logoPosition'[input[1]] = 100)
            /\ (input[2] = TypedMinus10 => logoPosition'[input[1]] = 0)]_vars

\* a drag clamped the left focus at the far corner and 150 / -10 were typed for the logo
ClampedFocusAndTypedPosition ==
  /\ relativeFocus["left"] = [x |-> FocusUnit, y |-> FocusUnit]
  /\ logoPosition = [x |-> 100, y |-> 0]

\* a pinch that cancelled a left drag has scaled the zoom from 10 to 500
PinchScaledAfterPreempt ==
  /\ isPinching /\ preemptedDrag = "left" /\ pinchSide = "left"
  /\ zoomAtPinchStart = 10 /\ initialPinchDistance = 5 /\ zoom["left"] = 500

\* C2: a slot never holds the element of a source that was replaced, and once
\* no load run of the slot is in flight every object URL created for a replaced
\* source of the slot has been released.
StaleLoadDiscarded ==
  \A s \in Slots :
    /\ element[s].kind # "none" => element[s].src = media[s]
    /\ (\A a \in attempts : a.slot # s) =>
         (element[s].url # 0 /\ element[s].src # media[s] => revokes[element[s].url] > 0)

\* C3: every object URL created is released exactly once: never twice, and
\* an unreleased one still backs a load run in flight or an element held by
\* the mounted component.
EachUrlReleasedOnce ==
  \A u \in DOMAIN revokes :
    /\ revokes[u] <= 1
    /\ revokes[u] = 0 =>
         \/ \E a \in attempts : a.url = u /\ a.stage = "decode"
         \/ isMounted /\ \E s \in Slots : element[s].url = u

\* C5: the element and the error of a slot are never both non-null.
ElementErrorExclusive ==
  \A s \in Slots : ~(element[s].kind # "none" /\ loadError[s] # "null")

\* what the export requires of the slots
ExportPreconditions ==
  /\ \A side \in Sides : element[side].kind = "image" /\ ~loading[side]
  /\ media["logo"] # 0 => (element["logo"].kind = "image" /\ ~loading["logo"])

\* C8: export is allowed exactly when both sides hold a loaded image that is
\* not loading and a provided logo is loaded and not loading; the save button
\* is enabled only then; an export attempt in any other state sets the save
\* error, creates no canvas, starts no encoding and triggers no download,
\* and an allowed attempt creates the canvas.
ExportOnlyWhenReady ==
  /\ [](/\ canSaveComposite <=> ExportPreconditions
        /\ SaveButtonEnabled => ExportPreconditions)
  /\ [][\A contextOk \in BOOLEAN :
          saveCompositeImage(contextOk) =>
            IF ExportPreconditions
            THEN canvases' = canvases + 1
            ELSE /\ saveError' # "null"
                 /\ canvases' = canvases /\ toBlobPending' = toBlobPending
                 /\ downloads' = downloads]_vars

\* an export went through to its download, then an attempt was denied while
\* the right side was loading
ExportDoneThenDenied ==
  /\ canvases = 1 /\ downloads = 1
  /\ loading["right"] /\ saveError = "notReady"

SlotStateKept(t) ==
  /\ element'[t] = element[t] /\ zoom'[t] = zoom[t]
  /\ loading'[t] = loading[t] /\ loadError'[t] = loadError[t]
  /\ media'[t] = media[t]
  /\ IF t = "logo" THEN logoPosition' = logoPosition ELSE relativeFocus'[t] = relativeFocus[t]

\* the object URL of the element slot t holds is not released
HeldUrlKept(t) == element[t].url # 0 => revokes'[element[t].url] = revokes[element[t].url]

\* C11: a file selection, object URL creation or load event of one slot leaves
\* the state of the other slots as it was and does not release the object URL
\* of an element another slot holds.
SlotsIsolated ==
  [][/\ \A sel \in LoadSelections :
          (media' # media /\ onFileSelect(sel[1], sel[2], sel[3])) =>
             \A t \in Slots \ {sel[1]} : SlotStateKept(t) /\ HeldUrlKept(t)
     /\ \A a \in attempts :
          (attempts' # attempts /\ \E ok \in BOOLEAN : BlobCreated(a, ok)) =>
             \A t \in Slots \ {a.slot} : SlotStateKept(t) /\ HeldUrlKept(t)
     /\ \A a \in attempts :
          (attempts' # attempts /\ \E outcome \in LoadOutcomes : LoadEvent(a, outcome)) =>
             \A t \in Slots \ {a.slot} : SlotStateKept(t) /\ HeldUrlKept(t)
    ]_vars

\* the same without the object URLs
SlotStatesIsolated ==
  [][/\ \A sel \in LoadSelections :
          (media' # media /\ onFileSelect(sel[1], sel[2], sel[3])) =>
             \A t \in Slots \ {sel[1]} : SlotStateKept(t)
     /\ \A a \in attempts :
          (attempts' # attempts /\ \E ok \in BOOLEAN : BlobCreated(a, ok)) =>
             \A t \in Slots \ {a.slot} : SlotStateKept(t)
     /\ \A a \in attempts :
          (attempts' # attempts /\ \E outcome \in LoadOutcomes : LoadEvent(a, outcome)) =>
             \A t \in Slots \ {a.slot} : SlotStateKept(t)
    ]_vars

\* C12: after the component was torn down, object URL creation and the load,
\* error and timeout events of a load run change no slot's element, loading
\* flag or error, and the run that settles has its object URL released.
TeardownStopsLoads ==
  [][\A a \in attempts :
       /\ (~isMounted /\ attempts' # attempts /\ \E ok \in BOOLEAN : BlobCreated(a, ok)) =>
            element' = element /\ loading' = loading /\ loadError' = loadError
       /\ (~isMounted /\ attempts' # attempts /\ \E outcome \in LoadOutcomes : LoadEvent(a, outcome)) =>
            /\ element' = element /\ loading' = loading /\ loadError' = loadError
            /\ a.url # 0 => revokes'[a.url] >= 1
    ]_vars

\* the only load run, of the left slot, created its object URL and settled
\* after the teardown: the URL is released and the slot still reads loading
LoadSettledAfterTeardown ==
  /\ ~isMounted /\ attempts = {}
  /\ media["right"] = 0 /\ media["logo"] = 0
  /\ loading["left"] /\ element["left"] = NoElement /\ loadError["left"] = "null"
  /\ \E u \in DOMAIN revokes : revokes[u] >= 1

\* C13: the loading flag of a slot is true while a load run for the slot's
\* current source is in flight, and it turns false only in the step in which
\* such a run settles.
LoadingWhileInFlight ==
  /\ [](\A a \in attempts :
          (a.stage \in {"fetch", "decode"} /\ a.src = media[a.slot] /\ isMounted) => loading[a.slot])
  /\ [][\A s \in Slots :
          (loading[s] /\ ~loading'[s]) =>
            \E a \in attempts : a.slot = s /\ a.src = media[s] /\ a \notin attempts']_vars

\* a file the slot accepts, read without error
SupportedSelection(sel) ==
  /\ sel[3]
  /\ FileInfo(sel[2]).mime = (IF sel[1] = "logo" THEN "image" ELSE FileInfo(sel[2]).mime)
  /\ FileInfo(sel[2]).mime # "other"

\* C14: selecting a supported file for a slot whose load has failed clears the
\* slot's error and starts a new load run for the selected file, whether the
\* file is another one or the same one again.
RetryStartsFreshLoad ==
  [][\A sel \in LoadSelections :
       (/\ SupportedSelection(sel)
        /\ loadError[sel[1]] \in {"loadFailed", "blobFailed"}
        /\ element[sel[1]] = NoElement /\ ~loading[sel[1]]
        /\ loadError'[sel[1]] # loadError[sel[1]]
        /\ onFileSelect(sel[1], sel[2], sel[3]))
         => /\ loadError'[sel[1]] = "null"
            /\ \E a \in attempts' : a \notin attempts /\ a.slot = sel[1] /\ a.src = sel[2]
    ]_vars

\* C15: when the object URL of a load run cannot be created, the run of any
\* slot goes on to load its element from the original data URL.
ObjectUrlFailureFallsBack ==
  [][\A a \in attempts :
       (a.stage = "fetch" /\ attempts' # attempts /\ BlobCreated(a, FALSE)) =>
          [a EXCEPT !.stage = "decode"] \in attempts'
    ]_vars

\* the same for the left and right slots only
SideObjectUrlFailureFallsBack ==
  [][\A a \in attempts :
       (a.stage = "fetch" /\ a.slot \in Sides /\ attempts' # attempts /\ BlobCreated(a, FALSE)) =>
          [a EXCEPT !.stage = "decode"] \in attempts'
    ]_vars

\* C16: the error recorded on the slot when a load run fails (decode error,
\* invalid dimensions or timeout) is not the one any other failure records.
FailureModesDistinguishable ==
  [][\A a \in attempts, o1 \in LoadOutcomes \ {"loaded"} :
       (a.stage = "decode" /\ isMounted /\ attempts' # attempts /\ LoadEvent(a, o1)) =>
          \A o2 \in LoadOutcomes \ {"loaded", o1} : loadError'[a.slot] # LoadErrorMessage(o2)
    ]_vars

ExportCropMatchesPreview ==
  \A side \in Sides :
    (ContainerVisible /\ exportFrame # NoExport /\ exportFrame[side] # NoRect)
       => exportFrame[side] = PreviewCrop(side)

\* the crops do agree whenever the export height needed no rounding
ExportCropMatchesWhenHeightWhole ==
  \A side \in Sides :
    (/\ ContainerVisible /\ exportFrame # NoExport /\ exportFrame[side] # NoRect
     /\ exportFrame.h * containerSize.w = exportFrame.w * containerSize.h)
       => exportFrame[side] = PreviewCrop(side)

\* the logo rectangle of the last export has the preview's sizing: as wide as
\* the logo zoom's share of the canvas, as tall as the logo's aspect ratio
\* makes it, and centred on the logo position unless that is clamped
ExportLogoSizedAsPreview ==
  LET logo == exportFrame.logo
      preview == getLogoStyle
      centreX == Frac(exportFrame.w * logoPosition.x, 100)
      centreY == Frac(exportFrame.h * logoPosition.y, 100)
      half == Frac(1, 2)
  IN /\ logo.w = Frac(exportFrame.w * zoom["logo"], 100)
     /\ RMul(logo.h, Whole(element["logo"].w)) = RMul(logo.w, Whole(element["logo"].h))
     /\ preview # NoRect =>
          /\ RMul(logo.w, Whole(containerSize.w)) = RMul(preview.w, Whole(exportFrame.w))
          /\ RMul(logo.h, preview.w) = RMul(preview.h, logo.w)
     /\ logo.x = RClamp(RSub(centreX, RMul(logo.w, half)), Whole(0),
                         RMax(Whole(0), RSub(Whole(exportFrame.w), logo.w)))
     /\ logo.y = RClamp(RSub(centreY, RMul(logo.h, half)), Whole(0),
                         RMax(Whole(0), RSub(Whole(exportFrame.h), logo.h)))

ExportLogoInsideCanvas ==
  LET logo == exportFrame.logo
  IN /\ RLeq(Whole(0), logo.x) /\ RLeq(RAdd(logo.x, logo.w), Whole(exportFrame.w))
     /\ RLeq(Whole(0), logo.y) /\ RLeq(RAdd(logo.y, logo.h), Whole(exportFrame.h))

\* C19: for every logo position, logo zoom and logo aspect ratio, the exporter
\* draws the logo with the preview's centred, aspect-locked sizing into a
\* rectangle that lies fully inside the export canvas.
ExportLogoPlacedInside ==
  (exportFrame # NoExport /\ exportFrame.logo # NoRect)
     => ExportLogoSizedAsPreview /\ ExportLogoInsideCanvas

\* the sizing always holds, and so does the containment of a logo that is not
\* taller than the canvas
ExportLogoInsideWhenItFits ==
  (exportFrame # NoExport /\ exportFrame.logo # NoRect)
     => /\ ExportLogoSizedAsPreview
        /\ RLeq(exportFrame.logo.h, Whole(exportFrame.h)) => ExportLogoInsideCanvas

\* C20: an export attempt, whether it is denied, fails or succeeds, leaves
\* every slot's source, element, zoom, focus or position, loading flag and load
\* error as they were; so does the delivery of its blob.
ExportLeavesSlotsAlone ==
  [][((\E contextOk \in BOOLEAN : saveCompositeImage(contextOk))
        \/ (\E blobOk \in BOOLEAN : ToBlobCallback(blobOk)))
       => UNCHANGED <<media, mediaType, element, zoom, relativeFocus, logoPosition,
                      loading, loadError>>]_vars

\* with a load error recorded on the logo slot, one export was downloaded and
\* another failed
ExportsBesideLoadError ==
  /\ loadError["logo"] = "unsupportedFile"
  /\ downloads = 1 /\ canvases = 2 /\ saveError = "saveFailed"

\* C21: while the component is mounted, an export attempt ends either in a
\* download or in an export error being set, never both and never neither; no
\* download is triggered by a denied attempt, by one that fails before encoding
\* or by an encoding that produced no data; and once no encoding is
\* outstanding the saving flag is false.
ExportEndsInDownloadOrError ==
  /\ []((isMounted /\ toBlobPending = 0) => ~isSaving)
  /\ [][\A contextOk \in BOOLEAN :
          (saveCompositeImage(contextOk) /\ (~canSaveComposite \/ ~contextOk))
             => /\ saveError' # "null"
                /\ downloads' = downloads
                /\ toBlobPending' = toBlobPending
                /\ canSaveComposite => ~isSaving']_vars
  /\ [][\A blobOk \in BOOLEAN :
          (ToBlobCallback(blobOk) /\ isMounted)
             => /\ ~isSaving'
                /\ IF blobOk
                   THEN downloads' = downloads + 1 /\ saveError' = saveError
                   ELSE downloads' = downloads /\ saveError' = "blobFailed"]_vars

\* one export was denied or failed before encoding, one produced no data and
\* nothing was downloaded; the exporter is idle again
ExportFailedTwiceThenIdle ==
  /\ isMounted /\ canvases = 2 /\ downloads = 0
  /\ toBlobPending = 0 /\ ~isSaving /\ saveError = "blobFailed"

\* C22: a drag session starts only over a slot that holds an element and only
\* when no pinch is active; in particular a primary-button mouse-down or a
\* single-touch start that arrives during a pinch starts no drag, and one over
\* a slot without an element leaves the controller idle.
DragStartsOnlyOutsidePinch ==
  /\ [][(activeDrag' # "null" /\ (activeDrag' # activeDrag \/ dragStart' # dragStart))
          => ~isPinching /\ mediaExists(activeDrag')]_vars
  /\ [][\A type \in Slots, p \in Points :
          (nTouches' = nTouches /\ MouseDown(type, 0, p))
             => /\ isPinching => activeDrag' = "null"
                /\ ~mediaExists(type) => (activeDrag' = "null" /\ ~isPinching')]_vars

\* the part that holds: a touch start never starts a drag during a pinch, and
\* no drag starts over a slot without an element
TouchDragStartsOnlyOutsidePinch ==
  /\ [][(activeDrag' # "null" /\ (activeDrag' # activeDrag \/ dragStart' # dragStart))
          => mediaExists(activeDrag')]_vars
  /\ [][(nTouches' # nTouches /\ activeDrag' # "null"
            /\ (activeDrag' # activeDrag \/ dragStart' # dragStart))
          => ~isPinching]_vars

\* C23: a touch end or cancel that leaves fewer than two touches during a
\* pinch returns the controller to idle (no pinch, no drag, pinch side cleared);
\* while the controller is idle no pointer or touch event, and so no movement
\* of a remaining finger, changes a side's zoom or focus; and a touch drag ends
\* when the last touch is gone.
PinchAndTouchDragEnd ==
  /\ [][(nTouches' < nTouches /\ nTouches' < 2 /\ isPinching)
          => (~isPinching' /\ activeDrag' = "null" /\ pinchSide' = "null")]_vars
  /\ [][(~isPinching /\ activeDrag = "null") => UNCHANGED <<zoom, relativeFocus>>]_vars
  /\ [][(nTouches' = 0 /\ nTouches > 0 /\ activeDrag # "null" /\ isTouching)
          => (activeDrag' = "null" /\ ~isTouching')]_vars

\* a pinch that changed the left zoom ended with one finger still down
PinchEndedFingerDown ==
  /\ nTouches = 1 /\ ~isPinching /\ activeDrag = "null" /\ pinchSide = "null"
  /\ zoom["left"] # 100

\* C24: the browser never holds more than one frame callback of the preview,
\* and the pending marker is set exactly while it holds one: a frame is not
\* requested while one is pending, and the marker is cleared when the frame
\* runs or is cancelled.
OneFramePending ==
  /\ Len(rafQueue) <= 1
  /\ animationFrameId = NoFrame <=> rafQueue = <<>>
  /\ animationFrameId # NoFrame => rafQueue = <<animationFrameId>>

\* a burst of changes was made while a frame was pending, and a drag ended
\* and cancelled its frame
FrameCoalescedAndCancelled ==
  /\ rafQueue = <<>> /\ animationFrameId = NoFrame
  /\ undrawn /\ zoom["left"] # 100 /\ relativeFocus["left"] # [x |-> 500, y |-> 500]
  /\ containerSize # [w |-> 600, h |-> 450]

\* C25: document-level touch listeners are attached only while a drag or a
\* pinch is on, the mouse listeners only during a drag that is neither a touch
\* drag nor a pinch; with no session, and after the unmount, none is attached.
ListenersOnlyDuringSession ==
  /\ TouchListenersAttached => (activeDrag # "null" \/ isPinching)
  /\ MouseListenersAttached => (activeDrag # "null" /\ ~isTouching /\ ~isPinching)
  /\ (activeDrag = "null" /\ ~isPinching)
        => (~TouchListenersAttached /\ ~MouseListenersAttached)
  /\ ~isMounted => (~TouchListenersAttached /\ ~MouseListenersAttached)

\* the component was unmounted in the middle of a touch drag
UnmountedDuringTouchDrag ==
  /\ ~isMounted /\ activeDrag = "left" /\ isTouching /\ nTouches = 1

\* C26: a wheel event over a side that holds an element sets that side's zoom
\* to its zoom minus 0.15 times the scroll delta, clamped to [MIN_ZOOM,
\* MAX_ZOOM], in every gesture mode; it changes no other slot value and nothing
\* of the gesture session; over a side without an element it changes nothing.
WheelZoomsOneSide ==
  [][\A side \in Sides, deltaY \in WheelNotches :
       (nTouches' = nTouches /\ handleWheelZoom(side, deltaY))
          => /\ IF mediaExists(side)
                THEN zoom' = [zoom EXCEPT ![side] =
                                clamp((zoom[side] * 100 - 15 * deltaY) \div 100, MIN_ZOOM, MAX_ZOOM)]
                ELSE zoom' = zoom
             /\ zoom'[side] >= MIN_ZOOM /\ zoom'[side] <= MAX_ZOOM
             /\ UNCHANGED <<element, relativeFocus, logoPosition, loading, gestureVars>>]_vars

\* the wheel raised the zoom of the side being pinched
WheeledDuringPinch ==
  /\ isPinching /\ pinchSide = "left" /\ zoomAtPinchStart = 100 /\ zoom["left"] = 250

\* C27: a touch start that reports three or more touches, and a two-touch
\* start over the logo, leave the gesture session and every slot's zoom, focus
\* and position as they were; no pinch is ever made on the logo slot.
ExtraTouchesIgnored ==
  /\ [](pinchSide # "logo")
  /\ [][(nTouches' > nTouches /\ nTouches' >= 3)
          => UNCHANGED <<gestureVars, zoom, relativeFocus, logoPosition>>]_vars
  /\ [][\A touches \in TouchLists :
          (nTouches' = 2 /\ nTouches < 2 /\ Len(touches) = 2
             /\ handleTouchStart("logo", touches))
          => UNCHANGED <<gestureVars, zoom, relativeFocus, logoPosition>>]_vars

\* a logo drag went on while a second and a third finger came down
LogoDragWithThreeTouches ==
  /\ nTouches = 3 /\ activeDrag = "logo" /\ isTouching /\ ~isPinching

\* on-screen size of the dragged side's source: source size x cover scale x zoom
DraggedSourceOnScreen ==
  LET el == element[activeDrag]
      halfWidth == Frac(containerSize.w, 2)
      height == Whole(containerSize.h)
      cover == IF ~RLeq(Frac(el.w, el.h), RDiv(halfWidth, height))
               THEN RDiv(height, Whole(el.h))
               ELSE RDiv(halfWidth, Whole(el.w))
      scale == RMul(cover, Frac(zoom[activeDrag], 100))
  IN [w |-> RMul(Whole(el.w), scale), h |-> RMul(Whole(el.h), scale)]

\* C28: a drag move sets the dragged side's focus to the base snapshot minus
\* the pointer's offset from the drag origin divided by the on-screen source
\* size, clamped to [0, 1], or the logo's position to its base snapshot plus
\* the offset as a percentage of the container, clamped to [0, 100]; a pointer
\* back on the drag origin restores the base value; nothing but the dragged
\* slot's focus or position changes.
DragFollowsPointer ==
  [][\A p \in DragPoints :
       (/\ nTouches' = nTouches /\ activeDrag' = activeDrag /\ activeDrag # "null"
        /\ ~isPinching /\ ContainerVisible /\ mediaExists(activeDrag)
        /\ (MouseMove(p) \/ handleTouchMove(<<p>>)))
       => LET dx == p.x - dragStart.x
              dy == p.y - dragStart.y
          IN IF activeDrag \in Sides
             THEN /\ relativeFocus' = [relativeFocus EXCEPT ![activeDrag] =
                       [x |-> clamp(initialDragFocus.x
                                      - Floor(RDiv(Whole(dx * FocusUnit), DraggedSourceOnScreen.w)),
                                    0, FocusUnit),
                        y |-> clamp(initialDragFocus.y
                                      - Floor(RDiv(Whole(dy * FocusUnit), DraggedSourceOnScreen.h)),
                                    0, FocusUnit)]]
                  /\ p = dragStart => relativeFocus'[activeDrag] = initialDragFocus
                  /\ UNCHANGED <<element, zoom, logoPosition, loading>>
             ELSE /\ logoPosition' =
                       [x |-> clamp(initialLogoPos.x + Floor(Frac(dx * 100, containerSize.w)), 0, 100),
                        y |-> clamp(initialLogoPos.y + Floor(Frac(dy * 100, containerSize.h)), 0, 100)]
                  /\ p = dragStart => logoPosition' = initialLogoPos
                  /\ UNCHANGED <<element, zoom, relativeFocus, loading>>]_vars

\* a drag of the left side has moved its focus away from the base snapshot
LeftFocusDraggedAway ==
  /\ activeDrag = "left" /\ ~isPinching
  /\ relativeFocus["left"] # initialDragFocus
  /\ relativeFocus["left"].x \in 1..(FocusUnit - 1)
  /\ relativeFocus["left"].x # 500

\* ---- C29
\* the double `exact` rounded by `ulp` units in the last place is above `limit`
Exceeds(exact, ulp, limit) == ~RLeq(exact, limit) \/ (exact = limit /\ ulp > 0)

TranscriptionSettled ==
  /\ checks <= maxAttempts
  /\ returned # NoReturn => awaiting = "none"
  /\ "complete" \in reported <=> returned = Success(generateSubtitledVideoUrl(publicId))
  /\ "failed" \in reported <=> returned = Failed
  /\ "threw" \in reported <=> returned = Caught("Failed to check transcription status")
  /\ returned = TimedOut <=>
       checks = maxAttempts /\ awaiting = "none" /\ reported = {"pending"}
  /\ returned \in {NoReturn, Failed, TimedOut, Caught(UpdateRejection),
                    Caught("Failed to check transcription status")}
                   \cup {Success(generateSubtitledVideoUrl(id)) : id \in PublicIds}

\* C30: a call of the transcription action makes at most 20 status checks and
\* returns, once: success with the subtitled video URL at the first check that
\* reports 'complete', the failure error at the first check that reports 'failed',
\* the caught error when a status check throws, and the timeout error when 20
\* checks reported no terminal status; after a 'failed' status it never returns
\* success; and every call that was started returns.
TranscriptionTerminates ==
  /\ []TranscriptionSettled
  /\ [][returned # NoReturn => returned' = returned]_vars
  /\ (awaiting # "none") ~> (returned # NoReturn)

\* a call that polled 20 times, saw 'pending' each time and returned the timeout
TranscriptionTimedOut ==
  /\ returned = TimedOut /\ checks = maxAttempts /\ attempt = maxAttempts
  /\ reported = {"pending"} /\ awaiting = "none" /\ publicId \in PublicIds
====
